---- MODULE Spec2Model ----
(***************************************************************************)
(* Photon_Sphere_3D.py: the geodesic integrator and the ray catalog, the   *)
(* warped grid, the two-rotation projection, and the animation callbacks.  *)
(*                                                                         *)
(* Floating-point values of the integrator and the grid are fixed-point    *)
(* integers with Scale = 10^8 units per 1.0, products rounded to nearest;  *)
(* the projection is evaluated in exact rational arithmetic; animate's     *)
(* progress and end_idx are evaluated in binary64 with its rounding.  TLC  *)
(* integers are 32 bit, so every operator below keeps its intermediate     *)
(* values under 2^31; TLC stops with an error on overflow.                 *)
(***************************************************************************)
EXTENDS Integers, Sequences, FiniteSets, TLC

VARIABLES
    \* ---- rays: the catalog loop and integrate_ray_3d
    ray_configs,  \* the catalog being processed: sequence of [b, Nphi, type]
    k,            \* index (1-based) of the config the loop is at
    pc,           \* "loop" | "step" | "after" | "ZeroDivisionError"
    b,            \* impact parameter of the current call
    Nphi,         \* sample count of the current call
    i,            \* loop variable of the stepping loop
    y,            \* samples produced so far: y[j] = <<u, up>>, y[1] initial
    stop_i,       \* stop_i of the source
    term,         \* how the loop was left: "none" | "capture" | "escape" | "exhausted"
    steps,        \* number of rk4_step calls of the current call
    ret,          \* what the last call returned: [u, r] (clamped u, radius)
    rays_3d,      \* the entries appended so far
    \* ---- warped grid
    g_n,          \* n_lines of the grid being built
    g_line,       \* index of the grid line being built, 0..2*n_lines
    g_j,          \* index of the next sample of that line, 0..100
    g_z,          \* z_line built so far: sequence of [r, z]
    w_r,          \* argument of the last direct evaluation (or -1)
    w_z,          \* its results: [direct, sample]
    \* ---- projection
    p_in,         \* [x_orb, y_orb, theta, phi]
    p_out,        \* <<x, y, z>> as rationals, or <<>> before the call
    \* ---- animation and controls
    anim_state,   \* [running, frame, auto_rotate]
    frame,        \* next frame FuncAnimation delivers, FRAMES = pass exhausted
    ticks,        \* timer events counted against MaxTicks
    slider_azim,
    slider_elev,
    view,         \* [elev, azim] of the 3D axes
    ray_lines,    \* per ray: number of points the line shows
    ray_markers,  \* per ray: index of the marker point, -1 = empty
    straight_lines, \* per ray: whether the straight line is drawn
    end_idx,      \* end_idx of the last animate call that got past its guard, per ray
    btn_auto_label, \* text of the Auto-Rotate button
    slider_zoom,  \* zoom slider, in tenths
    axis_limit    \* limit of the three axes (fixed point)

rayVars  == <<ray_configs, k, pc, b, Nphi, i, y, stop_i, term, steps, ret, rays_3d>>
gridVars == <<g_n, g_line, g_j, g_z, w_r, w_z>>
projVars == <<p_in, p_out>>
animVars == <<anim_state, frame, ticks, slider_azim, slider_elev, view,
              ray_lines, ray_markers, straight_lines, end_idx, btn_auto_label,
              slider_zoom, axis_limit>>
vars     == <<rayVars, gridVars, projVars, animVars>>

----------------------------------------------------------------------------
(* Fixed-point arithmetic standing for the source's float64 arithmetic.    *)

Half  == 10 ^ 4
Scale == Half * Half

Abs(a) == IF a < 0 THEN -a ELSE a
Sgn(a, c) == IF (a < 0) = (c < 0) THEN 1 ELSE -1
Min(a, c) == IF a < c THEN a ELSE c

\* a * c for 0 <= a, c as <<hi, lo>> with a * c = hi * Scale + lo.
MulFull(a, c) ==
    LET a1 == a \div Half  a0 == a % Half
        c1 == c \div Half  c0 == c % Half
        mid == a1 * c0 + a0 * c1
        low == (mid % Half) * Half + a0 * c0
    IN  << a1 * c1 + mid \div Half + low \div Scale, low % Scale >>

\* the product of two fixed-point values, rounded to nearest
MulFx(a, c) ==
    LET p == MulFull(Abs(a), Abs(c))
    IN  Sgn(a, c) * (p[1] + IF 2 * p[2] >= Scale THEN 1 ELSE 0)

\* <<q, r>> with a * m = q * d + r, for 0 <= a < d, m >= 0 (double and add)
RECURSIVE MulDivQR(_, _, _)
MulDivQR(a, m, d) ==
    IF m = 0 THEN <<0, 0>>
    ELSE LET h  == MulDivQR(a, m \div 2, d)
             q2 == IF h[2] >= d - h[2] THEN 2 * h[1] + 1 ELSE 2 * h[1]
             r2 == IF h[2] >= d - h[2] THEN h[2] - (d - h[2]) ELSE 2 * h[2]
         IN  IF m % 2 = 0 THEN <<q2, r2>>
             ELSE IF r2 >= d - a THEN <<q2 + 1, r2 - (d - a)>>
                  ELSE <<q2, r2 + a>>

\* floor(a * m / d) for a, m >= 0, d > 0
MulDiv(a, m, d) == (a \div d) * m + MulDivQR(a % d, m, d)[1]

\* a / d as a fixed-point value, a >= 0, d > 0
DivFx(a, d) == MulDiv(a, Scale, d)

\* floor(sqrt(v)) in fixed point: the largest x in lo..hi with x*x <= v*Scale
RECURSIVE SqrtSearch(_, _, _)
SqrtSearch(v, lo, hi) ==
    IF lo >= hi THEN lo
    ELSE LET mid == (lo + hi + 1) \div 2
             p   == MulFull(mid, mid)
         IN  IF p[1] < v \/ (p[1] = v /\ p[2] = 0)
             THEN SqrtSearch(v, mid, hi)
             ELSE SqrtSearch(v, lo, mid - 1)

SqrtFx(v) == SqrtSearch(v, 0, 4 * Scale)

----------------------------------------------------------------------------
(* Physical constants, lines 25-28.                                        *)

M          == Scale            \* M = 1.0
rs         == 2 * M            \* rs = 2.0 * M
r_photon   == 3 * M
PLOT_LIMIT == 15 * Scale       \* 15.0
R_START    == 15 * Scale       \* r_start = 15.0, default argument
SixPi      == 1884955592       \* 6 * np.pi
DefaultNphi == 2000

----------------------------------------------------------------------------
(* The geodesic integrator, lines 101-162.                                 *)

\* (mutant) the coefficient 2 of rs = 2M in place of 3
geodesic_rhs_coeff2(yy) == << yy[2], 2 * MulFx(yy[1], yy[1]) - yy[1] >>

\* geodesic_rhs: d2u = 3.0 * M * u**2 - u  (M = 1.0)
geodesic_rhs(yy) == << yy[2], 3 * MulFx(yy[1], yy[1]) - yy[1] >>

\* the element of a singleton set
Only(s) == CHOOSE x \in s : TRUE

\* y + c*k on both components
Axpy(yy, c, kk) == << yy[1] + MulFx(c, kk[1]), yy[2] + MulFx(c, kk[2]) >>

\* rk4_step(f, phi, y, h); f does not read phi.  Each stage is bound to its
\* value before the next one uses it.
rk4_step(yy, h) ==
    Only({ Only({ Only({ Only({
        << yy[1] + MulFx((h + 3) \div 6, k1[1] + 2 * k2[1] + 2 * k3[1] + k4[1]),
           yy[2] + MulFx((h + 3) \div 6, k1[2] + 2 * k2[2] + 2 * k3[2] + k4[2]) >>
        : k4 \in {geodesic_rhs(Axpy(yy, h, k3))} })
        : k3 \in {geodesic_rhs(Axpy(yy, (h + 1) \div 2, k2))} })
        : k2 \in {geodesic_rhs(Axpy(yy, (h + 1) \div 2, k1))} })
        : k1 \in {geodesic_rhs(yy)} })

\* u0 = 1.0 / r_start
U0 == DivFx(Scale, R_START)

\* val = 1.0/b**2 - u0**2 + 2*M*u0**3, clamped at 0; up0 = sqrt(val)
InitialSlope(bb) ==
    LET invb == DivFx(Scale, Abs(bb))
        val  == DivFx(invb, Abs(bb)) - MulFx(U0, U0) + 2 * MulFx(MulFx(U0, U0), U0)
    IN  SqrtFx(IF val < 0 THEN 0 ELSE val)

\* dphi = phi_grid[1] - phi_grid[0] of linspace(0, 6*pi, Nphi)
Dphi(n) == SixPi \div (n - 1)

\* the two tests of the loop body
Capture(yy) == yy[1] > DivFx(Scale, rs)
Escape(yy)  == yy[1] < U0 /\ yy[2] < 0

\* (mutant) range(Nphi): one iteration too many
LoopContinues_range_Nphi(ii, n) == ii < n

\* for i in range(Nphi-1)
LoopContinues(ii, n) == ii < n - 1

\* (mutant) stop_i = i+1: the slice drops the sample that stopped the loop
StopIndex_i_plus_1(ii) == ii + 1

\* stop_i = i+2 at a break
StopIndex(ii) == ii + 2

\* u[u < 1e-6] = 1e-6
ClampU(u) == IF u < 100 THEN 100 ELSE u

----------------------------------------------------------------------------
(* The catalog, lines 267-277, and the calls the model makes.  An entry    *)
(* is [b, Nphi, type]: theta, phi and color do not reach the integrator's  *)
(* stepping loop, and Nphi is the default argument of line 113 unless the  *)
(* call is a direct one.                                                   *)

Config(bb, n, t) == [b |-> bb, Nphi |-> n, type |-> t]

ray_configs_source ==
    << Config(7 * Scale, DefaultNphi, "escape"),
       Config(6 * Scale, DefaultNphi, "escape"),
       Config(55 * (Scale \div 10), DefaultNphi, "escape"),
       Config(5 * Scale, DefaultNphi, "capture"),
       Config(4 * Scale, DefaultNphi, "capture"),
       Config(3 * Scale, DefaultNphi, "capture") >>

\* b_crit = 3*sqrt(3)*M = 5.196152422706632
BCrit == 519615242

\* direct calls integrate_ray_3d(b, Nphi=n), labelled by the side of b_crit
ProbeCalls ==
    << Config(10 * Scale, DefaultNphi, "escape"),
       Config(519615240, 1000, "capture"),
       Config(20 * Scale, DefaultNphi, "escape"),
       Config(1 * Scale, DefaultNphi, "capture"),
       Config(53 * (Scale \div 10), DefaultNphi, "escape"),
       Config(15 * Scale, DefaultNphi, "escape") >>

MaxProbes == 5

\* catalogs holding an entry with b <= 0
InvalidCatalogs ==
    { << Config(0, DefaultNphi, "capture") >>,
      << Config(-3 * Scale, DefaultNphi, "capture") >>,
      << Config(7 * Scale, DefaultNphi, "escape"), Config(0, DefaultNphi, "capture"),
         Config(3 * Scale, DefaultNphi, "capture") >> }

Catalogs ==
    {ray_configs_source} \cup { << ProbeCalls[j] >> : j \in 1..Min(MaxProbes, Len(ProbeCalls)) }
        \cup InvalidCatalogs

\* row j (1-based) of the array y = np.zeros((Nphi, 2)) as filled so far
YRow(j) == IF j <= Len(y) THEN y[j] ELSE <<0, 0>>

GridIdle ==
    /\ g_n = 0 /\ g_line = 0 /\ g_j = 0 /\ g_z = <<>> /\ w_r = -1 /\ w_z = <<>>
ProjIdle == p_in = <<>> /\ p_out = <<>>
AnimIdle ==
    /\ anim_state = [running |-> FALSE, frame |-> 0, auto_rotate |-> FALSE]
    /\ frame = 0 /\ ticks = 0 /\ slider_azim = 45 /\ slider_elev = 25
    /\ view = [elev |-> 25, azim |-> 45]
    /\ ray_lines = <<>> /\ ray_markers = <<>> /\ straight_lines = <<>>
    /\ end_idx = <<>> /\ btn_auto_label = "Auto-Rotate: OFF"
    /\ slider_zoom = 10 /\ axis_limit = PLOT_LIMIT
RaysIdle ==
    /\ ray_configs = <<>> /\ k = 1 /\ pc = "loop" /\ b = 0 /\ Nphi = 0 /\ i = 0
    /\ y = <<>> /\ stop_i = 0 /\ term = "none" /\ steps = 0
    /\ ret = [u |-> <<>>, r |-> <<>>] /\ rays_3d = <<>>

InitRays ==
    /\ ray_configs \in Catalogs
    /\ k = 1 /\ pc = "loop" /\ b = 0 /\ Nphi = 0 /\ i = 0
    /\ y = <<>> /\ stop_i = 0 /\ term = "none" /\ steps = 0
    /\ ret = [u |-> <<>>, r |-> <<>>] /\ rays_3d = <<>>
    /\ GridIdle /\ ProjIdle /\ AnimIdle

\* line 283-289 and 121-140: the loop calls integrate_ray_3d, which sets up
\* the initial state; 1.0/b**2 raises ZeroDivisionError when b = 0
CallIntegrate ==
    /\ pc = "loop" /\ k <= Len(ray_configs)
    /\ LET c == ray_configs[k] IN
       IF c.b = 0
       THEN /\ pc' = "ZeroDivisionError"
            /\ b' = c.b
            /\ UNCHANGED <<Nphi, i, y, stop_i, term, steps>>
       ELSE /\ pc' = "step"
            /\ b' = c.b
            /\ Nphi' = c.Nphi
            /\ i' = 0
            /\ y' = << <<U0, InitialSlope(c.b)>> >>
            /\ stop_i' = c.Nphi
            /\ term' = "none"
            /\ steps' = 0
    /\ UNCHANGED <<ray_configs, k, ret, rays_3d, gridVars, projVars, animVars>>

\* lines 142-155: one iteration of the stepping loop
Step ==
    /\ pc = "step" /\ LoopContinues(i, Nphi)
    /\ LET ynew == rk4_step(YRow(i + 1), Dphi(Nphi)) IN
       /\ y' = Append(y, ynew)
       /\ steps' = steps + 1
       /\ IF Capture(ynew)
          THEN stop_i' = StopIndex(i) /\ term' = "capture" /\ pc' = "after" /\ i' = i
          ELSE IF Escape(ynew)
          THEN stop_i' = StopIndex(i) /\ term' = "escape" /\ pc' = "after" /\ i' = i
          ELSE /\ i' = i + 1
               /\ stop_i' = stop_i
               /\ IF LoopContinues(i + 1, Nphi)
                  THEN pc' = "step" /\ term' = "none"
                  ELSE pc' = "after" /\ term' = "exhausted"
    /\ UNCHANGED <<ray_configs, k, b, Nphi, ret, rays_3d, gridVars, projVars, animVars>>

\* lines 157-162 and 222, 290-294: slice, clamp, invert, return; the loop
\* appends the entry with the type of the config
Return ==
    /\ pc = "after"
    /\ LET n == Min(stop_i, Nphi)
           u == [j \in 1..n |-> ClampU(YRow(j)[1])]
       IN  /\ ret' = [u |-> u, r |-> [j \in 1..n |-> DivFx(Scale, u[j])]]
           /\ rays_3d' = Append(rays_3d, [n |-> n, type |-> ray_configs[k].type])
    /\ k' = k + 1
    /\ pc' = "loop"
    /\ UNCHANGED <<ray_configs, b, Nphi, i, y, stop_i, term, steps, gridVars, projVars, animVars>>

NextRays == CallIntegrate \/ Step \/ Return

SpecRays == InitRays /\ [][NextRays]_vars

----------------------------------------------------------------------------
(* Properties of the integrator and the catalog loop.                      *)

\* the call has returned and its entry is the last of rays_3d
Returned == pc = "loop" /\ k > 1 /\ Len(rays_3d) = k - 1

\* the way the loop was left agrees with the last sample produced
TermConsistent ==
    LET last == y[Len(y)] IN
    /\ term \in {"capture", "escape", "exhausted"}
    /\ term = "capture" => Capture(last)
    /\ term = "escape" => Escape(last) /\ ~Capture(last)
    /\ term = "exhausted" => ~Capture(last) /\ ~Escape(last) /\ Len(y) = Nphi

\* C1: every call with b > 0 terminates: while the loop runs its next
\* iteration can be taken, every iteration is one more RK4 step, the number
\* of steps never exceeds Nphi-1, and the loop is left in exactly one of the
\* three ways (capture, escape, exhaustion), which the last sample produced
\* agrees with.
C1_IntegrateTerminates ==
    /\ [](pc = "step" /\ b > 0 => LoopContinues(i, Nphi) /\ steps = i /\ steps < Nphi - 1)
    /\ [](pc = "after" /\ b > 0 => steps <= Nphi - 1 /\ steps = Len(y) - 1 /\ TermConsistent)
    /\ [][pc = "step" /\ b > 0 => steps' = steps + 1 /\ pc' \in {"step", "after"}]_vars

C1_Witness == pc = "after" /\ b > 0 /\ term = "exhausted" /\ steps = Nphi - 1

\* C2: the returned samples are the samples up to and including the first
\* one that satisfies capture or escape: the length is the index of the
\* stopping step's sample plus one, the last sample triggered the stop, no
\* earlier sample produced by a step satisfies either test, and when no
\* sample does, all Nphi samples are returned.
C2_FirstMatchStops ==
    Returned =>
        LET n == Len(ret.u) IN
        /\ n = IF term = "exhausted" THEN Nphi ELSE i + 2
        /\ n <= Len(y)
        /\ \A j \in 1..n : ret.u[j] = ClampU(y[j][1])
        /\ term # "exhausted" => Capture(y[n]) \/ Escape(y[n])
        /\ term = "exhausted" => ~Capture(y[n]) /\ ~Escape(y[n])
        /\ \A j \in 2..(n - 1) : ~Capture(y[j]) /\ ~Escape(y[j])

C2_Witness == Returned /\ term = "capture" /\ Len(ret.u) = i + 2 /\ i > 100

C4_ExhaustionFlagged ==
    Returned /\ term = "exhausted" => rays_3d[k - 1].type = "indeterminate"

\* C5: a config with b <= 0 never reaches the integrator, and 1/b^2 is never
\* evaluated with b = 0.
C5_NonPositiveRejected ==
    /\ pc # "ZeroDivisionError"
    /\ pc \in {"step", "after"} => b > 0

\* the lengths of the six rays of the source's catalog (len(ray['x']))
SourceRayLens == <<352, 430, 526, 456, 242, 158>>

RaysLensAgree ==
    ray_configs = ray_configs_source /\ Returned =>
        rays_3d[k - 1].n = SourceRayLens[k - 1]

----------------------------------------------------------------------------
(* The warp function and the Cartesian grid, lines 33-79.                  *)

\* floor of the product of two non-negative fixed-point values
MulFloor(a, c) == MulFull(a, c)[1]

\* v**10 (rounded down at every product)
Pow10(v) ==
    LET v2 == MulFloor(v, v)
        v4 == MulFloor(v2, v2)
        v5 == MulFloor(v4, v)
    IN  MulFloor(v5, v5)

\* the largest t in lo..hi with t**10 <= v
RECURSIVE RootSearch(_, _, _)
RootSearch(v, lo, hi) ==
    IF lo >= hi THEN lo
    ELSE LET mid == (lo + hi + 1) \div 2
         IN  IF Pow10(mid) <= v THEN RootSearch(v, mid, hi)
             ELSE RootSearch(v, lo, mid - 1)

\* v**0.3 for 0 <= v <= 1.0: the cube of the tenth root
Pow03(v) ==
    LET t == RootSearch(v, 0, Scale)
    IN  MulFx(MulFx(t, t), t)

ClampDepth == -15 * Scale      \* return -15
Epsilon    == Scale \div 100   \* 0.01

\* (mutant) r < rs: the horizon itself falls through to the formula
InsideHorizon_strict(r) == r < rs

\* if r <= rs
InsideHorizon(r) == r <= rs

\* spacetime_warp_z(r, r_max): [kind, z]; kind "nan" is the NaN numpy gives
\* for a negative base raised to the power 0.3
spacetime_warp_z(r, r_max) ==
    IF InsideHorizon(r) THEN [kind |-> "clamp", z |-> ClampDepth]
    ELSE LET base == Scale - DivFx(r, r_max)
         IN  IF base < 0 THEN [kind |-> "nan", z |-> 0]
             ELSE [kind |-> "formula",
                   z |-> MulFx(-6 * SqrtFx(DivFx(rs, r)), Pow03(base))]

\* one element of the list comprehension of lines 64 and 75:
\* spacetime_warp_z(r) if r > 0 else spacetime_warp_z(0.01)
GridSampleEval(r) ==
    LET at == IF r > 0 THEN r ELSE Epsilon
    IN  [at |-> at, w |-> spacetime_warp_z(at, PLOT_LIMIT)]

\* element j of np.linspace(-ext, ext, n)
Linspace(ext, n, j) ==
    IF 2 * j <= n - 1 THEN MulDiv(ext, 2 * j, n - 1) - ext
    ELSE ext - MulDiv(ext, 2 * (n - 1 - j), n - 1)

\* np.sqrt(x**2 + y**2), scaled by the larger of |x|, |y|
Hypot(x, yy) ==
    LET big   == IF Abs(x) >= Abs(yy) THEN Abs(x) ELSE Abs(yy)
        small == IF Abs(x) >= Abs(yy) THEN Abs(yy) ELSE Abs(x)
        q     == DivFx(small, big)
    IN  IF big = 0 THEN 0 ELSE MulFx(big, SqrtFx(Scale + MulFx(q, q)))

SamplesPerLine == 100

\* the radius of sample j of grid line l: lines 0..n-1 hold x constant,
\* lines n..2n-1 hold y constant
GridRadius(n, l, j) ==
    LET const == Linspace(PLOT_LIMIT, n, l % n)
        vary  == Linspace(PLOT_LIMIT, SamplesPerLine, j)
    IN  IF l < n THEN Hypot(const, vary) ELSE Hypot(vary, const)

\* n_lines: the default of line 47 and the value passed at line 316
GridLineCounts == {24, 28}

InitGrid ==
    /\ g_n \in GridLineCounts
    /\ g_line = 0 /\ g_j = 0 /\ g_z = <<>> /\ w_r = -1 /\ w_z = <<>>
    /\ RaysIdle /\ ProjIdle /\ AnimIdle

\* one element of z_line (line 64, or line 75 for the second loop)
GridSample ==
    /\ g_n > 0 /\ g_line < 2 * g_n /\ g_j < SamplesPerLine
    /\ LET r == GridRadius(g_n, g_line, g_j) IN
       g_z' = Append(g_z, [r |-> r, w |-> GridSampleEval(r).w])
    /\ g_j' = g_j + 1
    /\ UNCHANGED <<g_n, g_line, w_r, w_z, rayVars, projVars, animVars>>

\* grid_lines.append((x_line, y_line, z_line)), lines 66 and 77; the model
\* keeps the number of finished lines and the line being built
GridLineDone ==
    /\ g_n > 0 /\ g_line < 2 * g_n /\ g_j = SamplesPerLine
    /\ g_line' = g_line + 1
    /\ g_j' = 0
    /\ g_z' = <<>>
    /\ UNCHANGED <<g_n, w_r, w_z, rayVars, projVars, animVars>>

NextGrid == GridSample \/ GridLineDone

SpecGrid == InitGrid /\ [][NextGrid]_vars

\* radii at which the warp function is evaluated directly: multiples of
\* 0.25 up to MaxQuarter/4, and the edges of the branches
MaxQuarter == 64

WarpInputs ==
    { q * (Scale \div 4) : q \in 0..MaxQuarter }
        \cup {1, Epsilon, rs - 1, rs + 1, PLOT_LIMIT - 1, PLOT_LIMIT + 1}

InitWarp ==
    /\ w_r \in WarpInputs
    /\ w_z = <<>>
    /\ g_n = 0 /\ g_line = 0 /\ g_j = 0 /\ g_z = <<>>
    /\ RaysIdle /\ ProjIdle /\ AnimIdle

\* spacetime_warp_z(r) called directly and as a grid sample
EvalWarp ==
    /\ w_r >= 0 /\ w_z = <<>>
    /\ w_z' = [direct |-> spacetime_warp_z(w_r, PLOT_LIMIT), sample |-> GridSampleEval(w_r)]
    /\ UNCHANGED <<w_r, g_n, g_line, g_j, g_z, rayVars, projVars, animVars>>

NextWarp == EvalWarp

SpecWarp == InitWarp /\ [][NextWarp]_vars

\* C6: spacetime_warp_z returns exactly the clamp constant -15 for every
\* r <= rs, r = rs and r = 0 included, by the first branch (the formula is
\* not evaluated); a grid sample with r = 0 is evaluated at 0.01, which
\* gives the clamp constant too.
C6_ClampInsideHorizon ==
    w_z # <<>> =>
        /\ w_r <= rs => /\ w_z.direct = [kind |-> "clamp", z |-> -15 * Scale]
                        /\ w_z.sample.w = [kind |-> "clamp", z |-> -15 * Scale]
        /\ w_r = 0 => w_z.sample.at = Scale \div 100
        /\ w_r > 0 => w_z.sample.at = w_r /\ w_z.sample.w = w_z.direct

C6_Witness ==
    /\ w_z # <<>> /\ w_r = 0
    /\ w_z.sample.at = Epsilon /\ w_z.sample.w.kind = "clamp"

\* C9: every sample of the grid built with the defaults has r <= rs or
\* rs < r <= r_max, so no base is negative and every z is a real number in
\* [-15, 0].
C9_GridInDomain ==
    \A j \in 1..Len(g_z) :
        /\ g_z[j].r <= PLOT_LIMIT
        /\ g_z[j].w.kind # "nan"
        /\ -15 * Scale <= g_z[j].w.z /\ g_z[j].w.z <= 0

\* what does hold of the grid: inside the radius r_max every z is in [-15, 0]
GridInsideDomainOK ==
    \A j \in 1..Len(g_z) :
        g_z[j].r <= PLOT_LIMIT =>
            /\ g_z[j].w.kind # "nan"
            /\ -15 * Scale <= g_z[j].w.z /\ g_z[j].w.z <= 0

----------------------------------------------------------------------------
(* The projection of integrate_ray_3d, lines 172-222, in exact rational    *)
(* arithmetic.  An angle is given by a point (c, s) / d of the unit circle *)
(* with integer c, s, d, c*c + s*s = d*d: cos = c/d, sin = s/d.            *)

RECURSIVE Gcd(_, _)
Gcd(a, c) == IF c = 0 THEN a ELSE Gcd(c, a % c)

\* the rational n/d in lowest terms, d > 0
Rat(n, d) ==
    LET g == Gcd(Abs(n), Abs(d))
        s == IF d < 0 THEN -1 ELSE 1
    IN  [n |-> s * (n \div g), d |-> s * (d \div g)]

RMul(p, q) == Rat(p.n * q.n, p.d * q.d)
\* sum and difference over the least common denominator
RAdd(p, q) ==
    LET g == Gcd(p.d, q.d)
    IN  Rat(p.n * (q.d \div g) + q.n * (p.d \div g), (p.d \div g) * q.d)

RSub(p, q) == RAdd(p, [n |-> -q.n, d |-> q.d])

Angle(c, s, d) == [c |-> c, s |-> s, d |-> d]
Cos(a) == Rat(a.c, a.d)      \* np.cos
Sin(a) == Rat(a.s, a.d)      \* np.sin

\* 0, pi/2, pi (angles of the catalog) and angles with rational cos and sin
AngleTable ==
    << Angle(1, 0, 1), Angle(3, 4, 5), Angle(0, 1, 1), Angle(5, -12, 13),
       Angle(-1, 0, 1), Angle(-4, 3, 5), Angle(8, 15, 17), Angle(-3, -4, 5),
       Angle(12, 5, 13) >>

MaxAngles == 7
MaxCoord  == 2

Angles == { AngleTable[j] : j \in 1..Min(MaxAngles, Len(AngleTable)) }
Coords == { Rat(n, 1) : n \in (-MaxCoord)..MaxCoord }

\* (mutant) z1 = x_orb * np.cos(theta_angle)
TiltAboutY_z_cos(x_orb, y_orb, theta) ==
    << RMul(x_orb, Cos(theta)), y_orb, RMul(x_orb, Cos(theta)) >>

\* lines 213-215: rotate around the Y axis by theta (tilt the plane)
TiltAboutY(x_orb, y_orb, theta) ==
    << RMul(x_orb, Cos(theta)), y_orb, RMul(x_orb, Sin(theta)) >>

\* lines 218-220: rotate around the Z axis by phi (azimuth)
RotateAboutZ(p1, phi) ==
    << RSub(RMul(p1[1], Cos(phi)), RMul(p1[2], Sin(phi))),
       RAdd(RMul(p1[1], Sin(phi)), RMul(p1[2], Cos(phi))),
       p1[3] >>

ProjectOrbit(x_orb, y_orb, theta, phi) ==
    RotateAboutZ(TiltAboutY(x_orb, y_orb, theta), phi)

NormSq(p) == RAdd(RAdd(RMul(p[1], p[1]), RMul(p[2], p[2])), RMul(p[3], p[3]))

InitProject ==
    /\ p_in \in [x_orb : Coords, y_orb : Coords, theta : Angles, phi : Angles]
    /\ p_out = <<>>
    /\ RaysIdle /\ GridIdle /\ AnimIdle

\* lines 213-222 applied to one point (x_orb, y_orb, 0) of the orbit
ProjectPoint ==
    /\ p_in # <<>> /\ p_out = <<>>
    /\ p_out' = ProjectOrbit(p_in.x_orb, p_in.y_orb, p_in.theta, p_in.phi)
    /\ UNCHANGED <<p_in, rayVars, gridVars, animVars>>

NextProject == ProjectPoint

SpecProject == InitProject /\ [][NextProject]_vars

\* C7: the tilt about Y followed by the rotation about Z preserves the
\* distance from the origin: x^2 + y^2 + z^2 of the projected point equals
\* x_orb^2 + y_orb^2, for every orbital-plane point and pair of angles.
C7_DistancePreserved ==
    p_out # <<>> =>
        NormSq(p_out) = RAdd(RMul(p_in.x_orb, p_in.x_orb), RMul(p_in.y_orb, p_in.y_orb))

C7_Witness ==
    /\ p_out # <<>>
    /\ p_in.theta = Angle(3, 4, 5) /\ p_in.phi = Angle(5, -12, 13)
    /\ p_in.x_orb.n # 0 /\ p_in.y_orb.n # 0
    /\ p_out[3].n # 0 /\ p_out[1] # p_in.x_orb

----------------------------------------------------------------------------
(* IEEE-754 binary64 arithmetic for animate's progress and end_idx, lines  *)
(* 480-486.  A natural number is a little-endian sequence of NLimbs limbs  *)
(* of 15 bits; a float is zero or [m, e] with 2^52 <= m < 2^53, standing   *)
(* for m * 2^e.  Every operation rounds to nearest, ties to even.          *)

LimbBase == 2 ^ 15
NLimbs   == 5

RECURSIVE Propagate(_, _, _)
PropagateLimb(a, j, v) == << v % LimbBase >> \o Propagate(a, j + 1, v \div LimbBase)

\* carries (or borrows) of the limb sums a[j..] with carry c into limb j
Propagate(a, j, c) == IF j > NLimbs THEN <<>> ELSE PropagateLimb(a, j, a[j] + c)

Big(n) == << n % LimbBase, (n \div LimbBase) % LimbBase, n \div (LimbBase * LimbBase), 0, 0 >>

BigAdd(a, c)      == Propagate([j \in 1..NLimbs |-> a[j] + c[j]], 1, 0)
BigSub(a, c)      == Propagate([j \in 1..NLimbs |-> a[j] - c[j]], 1, 0)   \* a >= c
BigMulSmall(a, s) == Propagate([j \in 1..NLimbs |-> a[j] * s], 1, 0)      \* s < 2^15

\* a * 2^15, for a < 2^60
BigShiftLimb(a) == <<0>> \o SubSeq(a, 1, NLimbs - 1)

RECURSIVE BigCmp(_, _, _)
\* sign of a - c, comparing limbs j, j-1, .., 1
BigCmp(a, c, j) ==
    IF j = 0 THEN 0
    ELSE IF a[j] < c[j] THEN -1
    ELSE IF a[j] > c[j] THEN 1
    ELSE BigCmp(a, c, j - 1)

BigLess(a, c) == BigCmp(a, c, NLimbs) < 0

RECURSIVE BigShr(_, _)
\* floor(a / 2^n) of the limbs j.. of a
BigHalf(a) ==
    << (a[1] \div 2) + (a[2] % 2) * (LimbBase \div 2),
       (a[2] \div 2) + (a[3] % 2) * (LimbBase \div 2),
       (a[3] \div 2) + (a[4] % 2) * (LimbBase \div 2),
       (a[4] \div 2) + (a[5] % 2) * (LimbBase \div 2),
       a[5] \div 2 >>
BigShr(a, n) ==
    IF n = 0 THEN a
    ELSE IF n >= 15 THEN BigShr(SubSeq(a, 2, NLimbs) \o <<0>>, n - 15)
    ELSE BigShr(BigHalf(a), n - 1)

BigToInt(a) == a[1] + LimbBase * a[2]       \* for a < 2^30

MantBits  == 53
ChunkBits == 13
Two53     == << 0, 0, 0, 2 ^ 8, 0 >>
FZero     == [m |-> Big(0), e |-> 0]

RECURSIVE Normalise(_, _, _)
\* <<A, B, e>> with A/B * 2^e unchanged and B <= A < 2B
Normalise(A, B, e) ==
    IF BigLess(A, B) THEN Normalise(BigAdd(A, A), B, e - 1)
    ELSE IF B[NLimbs] = 0 /\ ~BigLess(A, BigShiftLimb(B))
    THEN Normalise(A, BigShiftLimb(B), e + 15)
    ELSE IF ~BigLess(A, BigAdd(B, B)) THEN Normalise(A, BigAdd(B, B), e + 1)
    ELSE <<A, B, e>>

RECURSIVE Quotient(_, _, _, _)
QuotientBit(d, r2, B, n) ==
    IF BigLess(r2, B) THEN Quotient(2 * d, r2, B, n - 1)
    ELSE Quotient(2 * d + 1, BigSub(r2, B), B, n - 1)

\* n more bits of the quotient digit d, remainder r, divisor B: <<d, r>>
Quotient(d, r, B, n) == IF n = 0 THEN <<d, r>> ELSE QuotientBit(d, BigAdd(r, r), B, n)

RECURSIVE QuotientChunks(_, _, _, _)
QuotientChunk(q, dr, B, n) ==
    QuotientChunks(BigAdd(BigMulSmall(q, 2 ^ ChunkBits), Big(dr[1])), dr[2], B, n - 1)

\* n more chunks of ChunkBits bits of the quotient q, remainder r: <<q, r>>
QuotientChunks(q, r, B, n) ==
    IF n = 0 THEN <<q, r>> ELSE QuotientChunk(q, Quotient(0, r, B, ChunkBits), B, n)

\* the float of mantissa q1 after rounding; q1 = 2^53 is renormalised
Renorm(q1, e) ==
    IF q1 = Two53 THEN [m |-> BigHalf(q1), e |-> e - (MantBits - 1) + 1]
    ELSE [m |-> q1, e |-> e - (MantBits - 1)]

\* round to nearest, ties to even: q the 53-bit quotient, c the sign of
\* 2 * remainder - divisor
Pack(q, c, e) ==
    Renorm(IF c > 0 \/ (c = 0 /\ q[1] % 2 = 1) THEN BigAdd(q, Big(1)) ELSE q, e)

PackQR(qr, B, e) == Pack(qr[1], BigCmp(BigAdd(qr[2], qr[2]), B, NLimbs), e)

\* the float nearest to A/B * 2^e, for B <= A < 2B
FRoundNorm(nm) ==
    PackQR(QuotientChunks(Big(1), BigSub(nm[1], nm[2]), nm[2], (MantBits - 1) \div ChunkBits),
           nm[2], nm[3])

\* the float nearest to A/B * 2^e, for A, B > 0
FRound(A, B, e) == FRoundNorm(Normalise(A, B, e))

\* int / int (true division), float * int, float / float, float < float
FDivInt(n, d) == IF n = 0 THEN FZero ELSE FRound(Big(n), Big(d), 0)
FMulInt(x, n) == IF x = FZero \/ n = 0 THEN FZero ELSE FRound(BigMulSmall(x.m, n), Big(1), x.e)
FDiv(x, d)    == IF x = FZero THEN FZero ELSE FRound(x.m, d.m, x.e - d.e)
FLess(x, d) ==
    IF d = FZero THEN FALSE
    ELSE IF x = FZero THEN TRUE
    ELSE x.e < d.e \/ (x.e = d.e /\ BigLess(x.m, d.m))

\* int(x) for 0 <= x < 2^30
FTrunc(x) == IF x = FZero \/ x.e < -(MantBits - 1) THEN 0 ELSE BigToInt(BigShr(x.m, -x.e))

\* the literal 0.8
Point8 == FDivInt(8, 10)

----------------------------------------------------------------------------
(* The animation callbacks and the controls, lines 401-516.                *)

FRAMES == 150

initial_azim == 45
initial_elev == 25
initial_zoom == 10      \* 1.0, in tenths

\* line 480
progress_of(f) == FDivInt(f, FRAMES)

\* (mutant) end_idx = int(progress * total_points)
end_idx_of_unscaled(progress, total_points) ==
    IF FLess(progress, Point8) THEN FTrunc(FMulInt(progress, total_points))
    ELSE total_points

\* lines 485-488
end_idx_of(progress, total_points) ==
    IF FLess(progress, Point8)
    THEN FTrunc(FDiv(FMulInt(progress, total_points), Point8))
    ELSE total_points

\* line 494
marker_idx(e, total_points) == Min(e - 1, total_points - 1)

\* (mutant) new_azim = slider_azim.val + 1
new_azim_no_wrap(val) == val + 1

\* line 506
new_azim(val) == (val + 1) % 360

RECURSIVE EndIdxFrom(_, _)
\* end_idx of the rays j.. in the order of the loop of line 482
EndIdxFrom(progress, j) ==
    IF j > Len(rays_3d) THEN <<>>
    ELSE << end_idx_of(progress, rays_3d[j].n) >> \o EndIdxFrom(progress, j + 1)

Ray(n, t) == [n |-> n, type |-> t]

\* rays_3d as the catalog loop leaves it (lengths: RaysLensAgree)
rays_3d_source ==
    [j \in 1..Len(SourceRayLens) |-> Ray(SourceRayLens[j], ray_configs_source[j].type)]

MaxPoints == 4
MaxTicks  == 2

\* the scene of lines 357-378 and 401-422 for the rays rr, the animation at
\* frame f with nothing drawn
Scene(rr, f) ==
    /\ rays_3d = rr
    /\ ray_configs = <<>> /\ k = 1 /\ pc = "loop" /\ b = 0 /\ Nphi = 0 /\ i = 0
    /\ y = <<>> /\ stop_i = 0 /\ term = "none" /\ steps = 0
    /\ ret = [u |-> <<>>, r |-> <<>>]
    /\ anim_state = [running |-> FALSE, frame |-> 0, auto_rotate |-> FALSE]
    /\ frame = f /\ ticks = 0
    /\ slider_azim = initial_azim /\ slider_elev = initial_elev
    /\ slider_zoom = initial_zoom /\ axis_limit = PLOT_LIMIT
    /\ view = [elev |-> initial_elev, azim |-> initial_azim]
    /\ ray_lines = [j \in 1..Len(rr) |-> 0]
    /\ ray_markers = [j \in 1..Len(rr) |-> -1]
    /\ straight_lines = [j \in 1..Len(rr) |-> FALSE]
    /\ end_idx = <<>>
    /\ btn_auto_label = "Auto-Rotate: OFF"
    /\ GridIdle /\ ProjIdle

controlVars == <<slider_azim, slider_elev, slider_zoom, view, axis_limit, btn_auto_label>>
sceneVars   == <<ray_lines, ray_markers, straight_lines, end_idx>>

\* lines 451-452
play_animation ==
    /\ anim_state' = [anim_state EXCEPT !.running = TRUE]
    /\ UNCHANGED <<frame, ticks, controlVars, sceneVars, rayVars, gridVars, projVars>>

\* lines 454-455
pause_animation ==
    /\ anim_state' = [anim_state EXCEPT !.running = FALSE]
    /\ UNCHANGED <<frame, ticks, controlVars, sceneVars, rayVars, gridVars, projVars>>

\* lines 457-459
toggle_auto_rotate ==
    /\ anim_state' = [anim_state EXCEPT !.auto_rotate = ~anim_state.auto_rotate]
    /\ btn_auto_label' = IF anim_state'.auto_rotate THEN "Auto-Rotate: ON" ELSE "Auto-Rotate: OFF"
    /\ UNCHANGED <<frame, ticks, slider_azim, slider_elev, slider_zoom, view, axis_limit,
                   sceneVars, rayVars, gridVars, projVars>>

\* lines 424-436, called with the sliders at their new values
update_view ==
    IF ~anim_state.auto_rotate
    THEN /\ view' = [elev |-> slider_elev', azim |-> slider_azim']
         /\ axis_limit' = MulDiv(PLOT_LIMIT, 10, slider_zoom')
    ELSE UNCHANGED <<view, axis_limit>>

AzimInputs == {359, 360}
ElevInputs == {-90}
ZoomInputs == {20}

\* the user moves one slider; lines 438-440 register update_view on each
SlideAzim(val) ==
    /\ slider_azim' = val /\ UNCHANGED <<slider_elev, slider_zoom>>
    /\ update_view
    /\ UNCHANGED <<anim_state, frame, ticks, btn_auto_label, sceneVars, rayVars, gridVars, projVars>>

SlideElev(val) ==
    /\ slider_elev' = val /\ UNCHANGED <<slider_azim, slider_zoom>>
    /\ update_view
    /\ UNCHANGED <<anim_state, frame, ticks, btn_auto_label, sceneVars, rayVars, gridVars, projVars>>

SlideZoom(val) ==
    /\ slider_zoom' = val /\ UNCHANGED <<slider_azim, slider_elev>>
    /\ update_view
    /\ UNCHANGED <<anim_state, frame, ticks, btn_auto_label, sceneVars, rayVars, gridVars, projVars>>

\* lines 476-510: animate(f).  slider_azim.set_val calls update_view, which
\* does nothing since auto_rotate is on
animate(f) ==
    /\ IF ~anim_state.running
       THEN UNCHANGED <<sceneVars, slider_azim, view>>
       ELSE \E e \in {EndIdxFrom(progress_of(f), 1)} :
            /\ end_idx' = e
            /\ ray_lines' = [j \in 1..Len(rays_3d) |-> IF e[j] > 1 THEN e[j] ELSE ray_lines[j]]
            /\ ray_markers' = [j \in 1..Len(rays_3d) |->
                                 IF e[j] > 1 THEN marker_idx(e[j], rays_3d[j].n)
                                 ELSE ray_markers[j]]
            /\ straight_lines' = [j \in 1..Len(rays_3d) |-> TRUE]
            /\ IF anim_state.auto_rotate
               THEN /\ slider_azim' = new_azim(slider_azim)
                    /\ view' = [elev |-> slider_elev, azim |-> new_azim(slider_azim)]
               ELSE UNCHANGED <<slider_azim, view>>
    /\ UNCHANGED <<anim_state, slider_elev, slider_zoom, axis_limit, btn_auto_label>>

\* the timer of FuncAnimation (line 514) delivers the next frame of the pass
TimerEvent ==
    /\ frame < FRAMES
    /\ animate(frame)
    /\ frame' = frame + 1
    /\ UNCHANGED <<rayVars, gridVars, projVars>>

\* lines 468-474 and repeat=True: the pass is exhausted, FuncAnimation calls
\* init and starts the frames over
Repeat ==
    /\ frame = FRAMES
    /\ ray_lines' = [j \in 1..Len(rays_3d) |-> 0]
    /\ straight_lines' = [j \in 1..Len(rays_3d) |-> FALSE]
    /\ ray_markers' = [j \in 1..Len(rays_3d) |-> -1]
    /\ end_idx' = <<>>
    /\ frame' = 0
    /\ UNCHANGED <<anim_state, ticks, controlVars, rayVars, gridVars, projVars>>

Tick == ticks < MaxTicks /\ TimerEvent /\ ticks' = ticks + 1

PlaybackTick == TimerEvent /\ UNCHANGED ticks

\* the controls under a bounded number of timer events, from the start of
\* the pass or from its last frames (reached by timer events while idle)
InitControls == \E f \in {0, FRAMES - 2} : Scene(rays_3d_source, f)

NextControls ==
    \/ play_animation \/ pause_animation \/ toggle_auto_rotate
    \/ \E val \in AzimInputs : SlideAzim(val)
    \/ \E val \in ElevInputs : SlideElev(val)
    \/ \E val \in ZoomInputs : SlideZoom(val)
    \/ Tick \/ Repeat

SpecControls == InitControls /\ [][NextControls]_vars

\* whole passes of the playback, Play pressed at any frame
RayLists == {rays_3d_source} \cup { << Ray(n, "capture") >> : n \in 2..MaxPoints }

InitPlayback == \E rr \in RayLists : Scene(rr, 0)

NextPlayback == play_animation \/ PlaybackTick \/ Repeat

SpecPlayback == InitPlayback /\ [][NextPlayback]_vars


\* f * N / (0.8 * FRAMES) in exact arithmetic: its floor, and whether it is
\* an integer
ExactQuotient(f, n) == (f * n * 5) \div (FRAMES * 4)
ExactIsInteger(f, n) == (f * n * 5) % (FRAMES * 4) = 0

\* a step of the timer: animate(frame) has been called
TimerStep == frame' = frame + 1

\* C8 as stated: at every frame f and for every ray of N points, end_idx is
\* floor((f/FRAMES)*N/0.8) while f/FRAMES < 0.8 and N otherwise.
C8_Original ==
    [][TimerStep /\ anim_state.running =>
        \A j \in 1..Len(rays_3d) :
            end_idx'[j] = IF frame * 5 < FRAMES * 4
                          THEN ExactQuotient(frame, rays_3d[j].n)
                          ELSE rays_3d[j].n]_vars

\* C8: at every frame f and for every ray of N points, end_idx is the floor
\* of f*N/(0.8*FRAMES), or one less than it when that quotient is an integer
\* >= 1, while f < 0.8*FRAMES, and N otherwise; end_idx lies in 0..N, does
\* not decrease from one frame of a pass to the next, and when end_idx > 1
\* the line shows end_idx points and the marker index min(end_idx-1, N-1) is
\* in 0..N-1.
C8_RevealedCount ==
    /\ [](\A j \in 1..Len(end_idx) : end_idx[j] \in 0..rays_3d[j].n)
    /\ [](\A j \in 1..Len(ray_markers) : ray_markers[j] \in (-1)..(rays_3d[j].n - 1))
    /\ [][TimerStep /\ anim_state.running =>
            \A j \in 1..Len(rays_3d) :
                LET n == rays_3d[j].n
                    q == ExactQuotient(frame, n)
                    e == end_idx'[j]
                IN  /\ IF frame * 5 < FRAMES * 4
                       THEN e = q \/ (ExactIsInteger(frame, n) /\ q >= 1 /\ e = q - 1)
                       ELSE e = n
                    /\ end_idx # <<>> => e >= end_idx[j]
                    /\ e > 1 => /\ ray_lines'[j] = e
                                /\ ray_markers'[j] = Min(e - 1, n - 1)
                                /\ ray_markers'[j] \in 0..(n - 1)]_vars

C8_Witness ==
    /\ anim_state.running /\ frame = 46 /\ rays_3d = rays_3d_source
    /\ end_idx # <<>> /\ end_idx[1] = 131 /\ end_idx[6] = 59
    /\ ray_lines[1] = 131 /\ ray_markers[1] = 130

\* C10: Play and Pause change only the running flag; the toggle changes only
\* the auto_rotate flag (and the text of its button); a timer event while
\* running is false changes no flag, slider, view, line or marker; a timer
\* event while running with auto_rotate on sets the azimuth slider, and the
\* view azimuth, to (azimuth + 1) mod 360, which is within 0..359.
C10_Controls ==
    /\ [][play_animation \/ pause_animation =>
            /\ anim_state'.auto_rotate = anim_state.auto_rotate
            /\ anim_state'.frame = anim_state.frame
            /\ UNCHANGED <<frame, controlVars, sceneVars>>]_vars
    /\ [][toggle_auto_rotate =>
            /\ anim_state'.running = anim_state.running
            /\ anim_state'.frame = anim_state.frame
            /\ anim_state'.auto_rotate = ~anim_state.auto_rotate
            /\ UNCHANGED <<frame, slider_azim, slider_elev, slider_zoom, view, axis_limit,
                           sceneVars>>]_vars
    /\ [][TimerStep /\ ~anim_state.running =>
            UNCHANGED <<anim_state, controlVars, sceneVars>>]_vars
    /\ [][TimerStep /\ anim_state.running /\ anim_state.auto_rotate =>
            /\ slider_azim' = (slider_azim + 1) % 360
            /\ slider_azim' \in 0..359
            /\ view'.azim = slider_azim']_vars

C10_Witness ==
    /\ anim_state.running /\ anim_state.auto_rotate /\ ticks > 0
    /\ slider_azim = 0 /\ view.azim = 0 /\ straight_lines[1]
    /\ btn_auto_label = "Auto-Rotate: ON"

====
